---------------------------- MODULE Spec2Model ----------------------------
(***************************************************************************)
(* A model of scripts/aem-assets.js (and of its options-record variant):   *)
(* the delivery query codec (appendQueryParams), the picture synthesizers  *)
(* (createOptimizedPicture and friends) and the block loader (loadBlock).  *)
(*                                                                         *)
(* Strings are sequences of tokens.  A token is a run of characters that   *)
(* every encoding leaves alone ("750", "jpg", "img", ...), or one of the   *)
(* characters whose encodings differ: "," and "/" are left raw by the URL  *)
(* parser but percent-encoded ("%2C", "%2F") by the form-urlencoded        *)
(* serializer that URLSearchParams.toString() uses.                        *)
(***************************************************************************)
EXTENDS Integers, Sequences, FiniteSets, TLC

(***************************************************************************)
(* Bounds of the model.                                                    *)
(***************************************************************************)
MaxUrlQuery == 2     \* query pairs on an input URL (codec specification)
MaxParams == 2       \* pairs of an input parameter set (codec specification)
MaxBreakpoints == 2  \* breakpoints handed to a synthesizer
MaxCalls == 3        \* loadBlock calls made in one run
NumBlocks == 2       \* blocks on the page
MaxFairCalls == 2    \* loadBlock calls made in one run under fair scheduling
MaxNodes == 2        \* link, image and picture nodes of a decorated subtree

(***************************************************************************)
(* Sequence helpers.                                                       *)
(***************************************************************************)
SeqsUpTo(S, n) == UNION {[1..m -> S] : m \in 0..n}

RECURSIVE LastIndexOf(_, _)
\* String.prototype.lastIndexOf, 1-based; 0 when the token does not occur
\* (JavaScript's -1 on its 0-based positions).
LastIndexOf(s, t) ==
  IF s = <<>> THEN 0
  ELSE IF s[Len(s)] = t THEN Len(s)
  ELSE LastIndexOf(SubSeq(s, 1, Len(s) - 1), t)

(***************************************************************************)
(* Percent-encoding, as application/x-www-form-urlencoded does it.         *)
(***************************************************************************)
EncodeTok(t) ==
  CASE t = "," -> "%2C"
    [] t = "/" -> "%2F"
    [] OTHER -> t

DecodeTok(t) ==
  CASE t = "%2C" -> ","
    [] t = "%2F" -> "/"
    [] OTHER -> t

EncodeStr(s) == [i \in DOMAIN s |-> EncodeTok(s[i])]
DecodeStr(s) == [i \in DOMAIN s |-> DecodeTok(s[i])]

\* url.searchParams: the URL's raw query parsed into decoded name/value pairs.
ParseQuery(q) == [i \in DOMAIN q |-> [k |-> q[i].k, v |-> DecodeStr(q[i].v)]]

\* searchParams.toString(): the pairs serialized, every value percent-encoded.
SerializeQuery(l) == [i \in DOMAIN l |-> [k |-> l[i].k, v |-> EncodeStr(l[i].v)]]

(***************************************************************************)
(* URLSearchParams, a list of name/value pairs.                            *)
(***************************************************************************)
HasKey(l, key) == \E i \in DOMAIN l : l[i].k = key

FirstIndex(l, key) == CHOOSE i \in DOMAIN l :
  l[i].k = key /\ \A j \in DOMAIN l : l[j].k = key => i <= j

\* All the values of key, in order (URLSearchParams.getAll).
GetAll(l, key) ==
  LET keep == {i \in DOMAIN l : l[i].k = key}
      F[i \in 0..Len(l)] ==
        IF i = 0 THEN <<>>
        ELSE IF i \in keep THEN Append(F[i - 1], l[i].v) ELSE F[i - 1]
  IN F[Len(l)]

\* The pairs of l whose index satisfies keep, in order.
FilterIdx(l, keep) ==
  LET F[i \in 0..Len(l)] ==
        IF i = 0 THEN <<>>
        ELSE IF i \in keep THEN Append(F[i - 1], l[i]) ELSE F[i - 1]
  IN F[Len(l)]

\* URLSearchParams.append
SearchParamsAppend(l, key, value) == Append(l, [k |-> key, v |-> value])

\* URLSearchParams.set: the first pair named key takes the value and every
\* other pair named key is removed; with no such pair, one is appended.
SearchParamsSet(l, key, value) ==
  IF HasKey(l, key)
  THEN LET f == FirstIndex(l, key)
           l1 == [l EXCEPT ![f].v = value]
       IN FilterIdx(l1, {i \in DOMAIN l : l[i].k # key \/ i = f})
  ELSE Append(l, [k |-> key, v |-> value])

\* URLSearchParams.delete: every pair named key is removed.
SearchParamsDelete(l, key) == FilterIdx(l, {i \in DOMAIN l : l[i].k # key})

(***************************************************************************)
(* appendQueryParams(url, params)                                          *)
(***************************************************************************)
allowedParams ==
  {"rotate", "crop", "flip", "size", "preferwebp", "height", "width",
   "quality", "smartcrop"}

IsAllowedAny(key) == TRUE
IsAllowed(key) == key \in allowedParams

SetParamByAppend(l, key, value) == SearchParamsAppend(l, key, value)
SetParam(l, key, value) == SearchParamsSet(l, key, value)

\* params.forEach((value, key) => { if (allowed) searchParams.set(key, value) })
ApplyParams(l, params) ==
  LET F[i \in 0..Len(params)] ==
        IF i = 0 THEN l
        ELSE IF IsAllowed(params[i].k)
             THEN SetParam(F[i - 1], params[i].k, params[i].v)
             ELSE F[i - 1]
  IN F[Len(params)]

\* The URL after the call (the handle is mutated, and the returned string is
\* its serialization): the query is the serialized pair list.
appendQueryParams(url, params) ==
  [url EXCEPT !.query = SerializeQuery(ApplyParams(ParseQuery(url.query), params))]


(***************************************************************************)
(* URLs.  A URL is [abs, host, path, query]: whether the string is         *)
(* absolute (matches /^https?:\/\//i), its host (empty when relative), its *)
(* pathname as tokens and its raw query as a list of name/value pairs.     *)
(***************************************************************************)
Undefined == <<"<undefined>">>   \* undefined / null / an attribute not set

Truthy(v) == v # Undefined /\ v # <<>>

\* String(v), as the URLSearchParams constructor converts a record's values.
StrOf(v) == IF v = Undefined THEN <<"undefined">> ELSE v

\* new URL(src) parses only an absolute URL; new URL(src, window.location.href)
\* resolves a relative one against the document, which makes its path rooted.
CanParse(src) == src.abs

DocumentHost == <<"page">>   \* the host of window.location.href

ResolveUrl(src) ==
  IF src.abs THEN src
  ELSE [src EXCEPT !.abs = TRUE, !.host = DocumentHost,
                   !.path = IF src.path # <<>> /\ src.path[1] = "/"
                            THEN src.path ELSE <<"/">> \o src.path]

\* pathname.substring(pathname.lastIndexOf('.') + 1)
ExtOf(path) == SubSeq(path, LastIndexOf(path, ".") + 1, Len(path))

(***************************************************************************)
(* Elements and pictures.                                                  *)
(***************************************************************************)
SourceEl(media, type, url) ==
  [tag |-> "source", media |-> IF Truthy(media) THEN media ELSE Undefined,
   type |-> type, url |-> url, alt |-> Undefined, loading |-> Undefined]

ImgEl(alt, eager, url) ==
  [tag |-> "img", media |-> Undefined, type |-> Undefined, url |-> url,
   alt |-> alt, loading |-> IF eager THEN <<"eager">> ELSE <<"lazy">>]

Picture(children, classes, status) ==
  [kind |-> "picture", children |-> children, classes |-> classes,
   status |-> status]

\* The call threw instead of returning a picture.
Thrown == [kind |-> "error", children |-> <<>>, classes |-> {},
           status |-> Undefined]

\* The two source variants differ in the negotiated format: the positional
\* variant hard-codes type image/webp and format=webply, the options-record
\* variant takes imageFormat.
NegotiatedFormat(variant, imageFormat) ==
  IF variant = "positional" THEN <<"webply">> ELSE imageFormat

NegotiatedType(variant, imageFormat) ==
  IF variant = "positional" THEN <<"image/", "webp">>
  ELSE <<"image/">> \o imageFormat

\* new URLSearchParams({ width: br.width, format: f })
WidthFormatParams(br, f) ==
  <<[k |-> "width", v |-> StrOf(br.width)], [k |-> "format", v |-> StrOf(f)]>>

\* new URLSearchParams({ smartcrop: br.smartcrop, format: f })
SmartcropFormatParams(br, f) ==
  <<[k |-> "smartcrop", v |-> StrOf(br.smartcrop)],
    [k |-> "format", v |-> StrOf(f)]>>

(***************************************************************************)
(* createOptimizedPicture: the url handle is shared by every iteration, so *)
(* each loop threads [url, children] through the breakpoints.              *)
(***************************************************************************)
FallbackIsImgNever(i, n) == FALSE
FallbackIsImg(i, n) == ~(i < n)   \* 1-based i: !(i0 < breakpoints.length - 1)

NegotiatedLoop(acc0, breakpoints, ps, type) ==
  LET F[i \in 0..Len(breakpoints)] ==
        IF i = 0 THEN acc0
        ELSE LET br == breakpoints[i]
                 u == appendQueryParams(F[i - 1].url, ps[i])
             IN [url |-> u,
                 children |-> Append(F[i - 1].children,
                                     SourceEl(br.media, type, u))]
  IN F[Len(breakpoints)]

FallbackLoop(acc0, breakpoints, ps, alt, eager) ==
  LET n == Len(breakpoints)
      F[i \in 0..n] ==
        IF i = 0 THEN acc0
        ELSE LET br == breakpoints[i]
                 u == appendQueryParams(F[i - 1].url, ps[i])
             IN [url |-> u,
                 children |-> Append(F[i - 1].children,
                    IF FallbackIsImg(i, n) THEN ImgEl(alt, eager, u)
                    ELSE SourceEl(br.media, Undefined, u))]
  IN F[n]

createOptimizedPicture(variant, src, alt, eager, breakpoints, imageFormat) ==
  IF ~CanParse(src) THEN Thrown
  ELSE
    LET ext == ExtOf(src.path)
        fmt == NegotiatedFormat(variant, imageFormat)
        P1 == [i \in DOMAIN breakpoints |-> WidthFormatParams(breakpoints[i], fmt)]
        P2 == [i \in DOMAIN breakpoints |-> WidthFormatParams(breakpoints[i], ext)]
        a1 == NegotiatedLoop([url |-> src, children |-> <<>>], breakpoints,
                             P1, NegotiatedType(variant, imageFormat))
        a2 == FallbackLoop(a1, breakpoints, P2, alt, eager)
    IN Picture(a2.children, {}, Undefined)

(***************************************************************************)
(* The global smart-crop configuration window.hlx.aemassets.smartCrops:    *)
(* [defined, entries], entries in Object.entries order, each               *)
(* [name, minWidth, maxWidth].                                             *)
(***************************************************************************)
MediaRange(e) ==
  <<"(min-width: ">> \o e.minWidth \o <<"px) and (max-width: ">>
    \o e.maxWidth \o <<"px)">>

\* Object.entries(smartCrops).map(([name, {minWidth, maxWidth}]) => ({...}))
ConfigBreakpoints(cfg) ==
  [i \in DOMAIN cfg.entries |->
     [media |-> MediaRange(cfg.entries[i]), width |-> Undefined,
      smartcrop |-> cfg.entries[i].name]]

\* The same, with width: maxWidth || '2000' (createOptimizedPictureForDMOpenAPI).
ConfigBreakpointsWithWidth(cfg) ==
  [i \in DOMAIN cfg.entries |->
     [media |-> MediaRange(cfg.entries[i]),
      width |-> IF Truthy(cfg.entries[i].maxWidth)
                THEN cfg.entries[i].maxWidth ELSE <<"2000">>,
      smartcrop |-> cfg.entries[i].name]]

(***************************************************************************)
(* createOptimizedPictureWithSmartcrop                                     *)
(***************************************************************************)
SmartcropFallbackLoop(acc0, breakpoints, ps) ==
  LET F[i \in 0..Len(breakpoints)] ==
        IF i = 0 THEN acc0
        ELSE LET br == breakpoints[i]
                 u == appendQueryParams(F[i - 1].url, ps[i])
             IN [url |-> u,
                 children |-> Append(F[i - 1].children,
                                     SourceEl(br.media, Undefined, u))]
  IN F[Len(breakpoints)]

KeepSmartcrop(url) == url
\* url.searchParams.delete('smartcrop'); url.toString()
StripSmartcrop(url) ==
  [url EXCEPT !.query =
     SerializeQuery(SearchParamsDelete(ParseQuery(url.query), "smartcrop"))]

createOptimizedPictureWithSmartcrop(variant, src, alt, eager, breakpoints, imageFormat, cfg) ==
  IF breakpoints = <<>> /\ ~cfg.defined THEN Thrown  \* Object.entries(undefined)
  ELSE
    LET smartcropBreakpoints ==
          IF breakpoints # <<>> THEN breakpoints ELSE ConfigBreakpoints(cfg)
        url == ResolveUrl(src)
        ext == ExtOf(url.path)
        fmt == NegotiatedFormat(variant, imageFormat)
        bps == smartcropBreakpoints
        P1 == [i \in DOMAIN bps |-> SmartcropFormatParams(bps[i], fmt)]
        P2 == [i \in DOMAIN bps |-> SmartcropFormatParams(bps[i], ext)]
        a1 == NegotiatedLoop([url |-> url, children |-> <<>>],
                             smartcropBreakpoints, P1,
                             NegotiatedType(variant, imageFormat))
        a2 == SmartcropFallbackLoop(a1, smartcropBreakpoints, P2)
        img == ImgEl(alt, eager, StripSmartcrop(a2.url))
    IN Picture(Append(a2.children, img), {"smartcrop"}, Undefined)

(***************************************************************************)
(* createOptimizedPictureForDM (positional variant only)                   *)
(***************************************************************************)
\* new URLSearchParams({ width: br.width })
WidthParams(br) == <<[k |-> "width", v |-> StrOf(br.width)]>>

createOptimizedPictureForDM(src, alt, eager, breakpoints) ==
  IF ~CanParse(src) THEN Thrown
  ELSE
    LET P == [i \in DOMAIN breakpoints |-> WidthParams(breakpoints[i])]
        a1 == NegotiatedLoop([url |-> src, children |-> <<>>], breakpoints,
                             P, <<"image/", "jpeg">>)
        a2 == FallbackLoop(a1, breakpoints, P, alt, eager)
    IN Picture(a2.children, {}, Undefined)

(***************************************************************************)
(* createOptimizedPictureForDMOpenAPI (positional variant only)            *)
(***************************************************************************)
\* new URLSearchParams({ width: br.width || '2000' }), plus smartcrop when
\* useSmartcrop && br.smartcrop
OpenAPIWidthParams(br) ==
  <<[k |-> "width", v |-> IF Truthy(br.width) THEN br.width ELSE <<"2000">>]>>

OpenAPIParams(br, useSmartcrop) ==
  LET w == OpenAPIWidthParams(br)
  IN IF useSmartcrop /\ Truthy(br.smartcrop)
     THEN SearchParamsSet(w, "smartcrop", br.smartcrop)
     ELSE w

OpenAPIFallbackLoop(acc0, breakpoints, ps) ==
  LET n == Len(breakpoints)
      F[i \in 0..n] ==
        IF i = 0 THEN acc0
        ELSE IF i < n
        THEN LET br == breakpoints[i]
                 u == appendQueryParams(F[i - 1].url, ps[i])
             IN [url |-> u,
                 children |-> Append(F[i - 1].children,
                                     SourceEl(br.media, Undefined, u))]
        ELSE F[i - 1]
  IN F[n]

createOptimizedPictureForDMOpenAPI(src, alt, useSmartcrop, eager, breakpoints, cfg) ==
  LET url == ResolveUrl(src)
      finalBreakpoints ==
        IF useSmartcrop /\ cfg.defined /\ breakpoints = <<>>
        THEN ConfigBreakpointsWithWidth(cfg) ELSE breakpoints
      P == [i \in DOMAIN finalBreakpoints |->
              OpenAPIParams(finalBreakpoints[i], useSmartcrop)]
      a1 == NegotiatedLoop([url |-> url, children |-> <<>>], finalBreakpoints,
                           P, <<"image/", "avif">>)
      a2 == OpenAPIFallbackLoop(a1, finalBreakpoints, P)
      n == Len(finalBreakpoints)
      imgUrl == IF n > 0
                THEN appendQueryParams(a2.url,
                                       OpenAPIWidthParams(finalBreakpoints[n]))
                ELSE a2.url
      img == ImgEl(IF Truthy(alt) THEN alt ELSE <<>>, eager, imgUrl)
  IN Picture(Append(a2.children, img),
             IF useSmartcrop THEN {"smartcrop"} ELSE {},
             IF useSmartcrop THEN <<"loaded">> ELSE Undefined)

(***************************************************************************)
(* The strings the classifier works on.  The attribute text of a URL is    *)
(* its tokens in order: scheme and host, pathname, "?" and the query.      *)
(***************************************************************************)
RECURSIVE QueryString(_)
QueryString(q) ==
  IF q = <<>> THEN <<>>
  ELSE LET h == <<q[1].k, "=">> \o q[1].v
       IN IF Len(q) = 1 THEN h ELSE h \o <<"&">> \o QueryString(Tail(q))

UrlString(u) ==
  (IF u.abs THEN <<"https://">> \o u.host ELSE <<>>) \o u.path
    \o (IF u.query = <<>> THEN <<>> ELSE <<"?">> \o QueryString(u.query))

\* String.prototype.startsWith
StartsWith(s, prefix) ==
  Len(prefix) <= Len(s) /\ SubSeq(s, 1, Len(prefix)) = prefix

\* String.prototype.trim: leading and trailing white space removed.
Trim(s) ==
  LET keep == {i \in DOMAIN s : s[i] # " "}
  IN IF keep = {} THEN <<>>
     ELSE SubSeq(s, CHOOSE i \in keep : \A j \in keep : i <= j,
                    CHOOSE i \in keep : \A j \in keep : j <= i)

\* String.prototype.toLowerCase
LowerTok(t) ==
  CASE t = "JPG" -> "jpg"
    [] t = "PNG" -> "png"
    [] t = "SVG" -> "svg"
    [] OTHER -> t

ToLowerCase(s) == [i \in DOMAIN s |-> LowerTok(s[i])]

\* url.split(/[#?]/)[0]
BeforeQueryOrFragment(s) ==
  LET cut == {i \in DOMAIN s : s[i] \in {"#", "?"}}
  IN IF cut = {} THEN s
     ELSE SubSeq(s, 1, (CHOOSE i \in cut : \A j \in cut : i <= j) - 1)

\* url.split(/[#?]/)[0].split('.').pop().trim()
getUrlExtension(url) ==
  LET s == BeforeQueryOrFragment(url)
  IN Trim(SubSeq(s, LastIndexOf(s, ".") + 1, Len(s)))

ImageExtensions ==
  {<<"jpg">>, <<"jpeg">>, <<"png">>, <<"gif">>, <<"webp">>, <<"avif">>}

\* if (!url) return false; ext && [...].includes(ext.toLowerCase())
hasImageExtension(url) ==
  /\ Truthy(url)
  /\ getUrlExtension(url) # <<>>
  /\ ToLowerCase(getUrlExtension(url)) \in ImageExtensions

(***************************************************************************)
(* Nodes.  A subtree is the sequence of its link, image and picture nodes  *)
(* in document order.  A node is [tag, src, text, status, scoped, pic]:    *)
(* src is the href / src attribute (NoSrc when the attribute is not set),  *)
(* text the text content, status the data-smartcrop-status attribute,      *)
(* scoped whether the node lies under a .smartcrop element or in a section *)
(* whose metadata names smartcrop, and pic the picture of a picture node.  *)
(* An img inside a picture is a child of that picture.                     *)
(***************************************************************************)
NoSrc == [abs |-> FALSE, host |-> <<>>, path |-> <<>>, query |-> <<>>]

NoPicture == [kind |-> "none", children |-> <<>>, classes |-> {},
              status |-> Undefined]

LinkNode(href, text, scoped) ==
  [tag |-> "a", src |-> href, text |-> text, status |-> Undefined,
   scoped |-> scoped, pic |-> NoPicture]

ImgNode(src, scoped) ==
  [tag |-> "img", src |-> src, text |-> <<>>, status |-> Undefined,
   scoped |-> scoped, pic |-> NoPicture]

PictureNode(pic) ==
  [tag |-> "picture", src |-> NoSrc, text |-> <<>>, status |-> Undefined,
   scoped |-> FALSE, pic |-> pic]

\* The element isExternalImage sees: a link or image node of the subtree
\* (outside any picture), or an img child of a picture.
TopElement(node) ==
  [tag |-> node.tag, src |-> node.src, text |-> node.text, inPicture |-> FALSE]

InnerElement(child) ==
  [tag |-> child.tag, src |-> child.url, text |-> <<>>, inPicture |-> TRUE]

\* element.getAttribute('src') / element.getAttribute('href'), or null
getImageSrcUrl(element) ==
  IF element.tag \in {"img", "a"} /\ element.src # NoSrc
  THEN UrlString(element.src) ELSE Undefined

(***************************************************************************)
(* isExternalImage(element, externalImageMarker).  An entry of             *)
(* window.hlx.aemassets.externalImageUrlPrefixes is [isTuple, prefix,      *)
(* handler, format]: a two-element array pairing the prefix with a         *)
(* synthesizer (positional variant) or a format (options-record variant),  *)
(* or a bare prefix string.                                                *)
(***************************************************************************)
\* The positional variant skips an entry that is not a two-element array;
\* the options-record variant compares a bare string too.
PrefixMatches(variant, item, url) ==
  IF item.isTuple THEN StartsWith(url, item.prefix)
  ELSE variant = "options" /\ StartsWith(url, item.prefix)

\* for (const prefixItem of ...) { if (...) { ...; break; } }: the first
\* entry that matches, 0 when none does.
MatchingPrefix(variant, url, prefixes) ==
  LET hits == {i \in DOMAIN prefixes : PrefixMatches(variant, prefixes[i], url)}
  IN IF hits = {} THEN 0 ELSE CHOOSE i \in hits : \A j \in hits : i <= j

NotExternal ==
  [isExternal |-> FALSE, handler |-> "null", imageFormat |-> Undefined]

\* What the classifier pairs with a link: the positional variant returns
\* createOptimizedPicture, the options-record variant no format.
DefaultHandler(variant) ==
  IF variant = "positional" THEN "createOptimizedPicture" ELSE "null"

InPictureIsStandalone(element) == FALSE
\* element.closest('picture')
InPicture(element) == element.inPicture

RecognizedExtension(url) == hasImageExtension(url)

isExternalImage(variant, element, externalImageMarker, prefixes) ==
  IF element.tag = "img" /\ InPicture(element) THEN NotExternal
  ELSE IF element.tag = "img" THEN
    LET url == getImageSrcUrl(element)
        m == MatchingPrefix(variant, url, prefixes)
    IN IF ~Truthy(url) THEN NotExternal
       ELSE IF m = 0 THEN NotExternal
       ELSE [isExternal |-> RecognizedExtension(url),
             handler |-> IF variant = "positional"
                         THEN prefixes[m].handler ELSE "null",
             imageFormat |-> IF variant = "options" /\ prefixes[m].isTuple
                             THEN prefixes[m].format ELSE Undefined]
  ELSE IF element.tag = "a" /\ Trim(element.text) = externalImageMarker
  THEN [isExternal |-> TRUE, handler |-> DefaultHandler(variant),
        imageFormat |-> Undefined]
  ELSE IF element.tag = "a" THEN
    LET url == getImageSrcUrl(element)
    IN IF ~Truthy(url) THEN NotExternal
       ELSE [isExternal |-> RecognizedExtension(url),
             handler |-> DefaultHandler(variant), imageFormat |-> Undefined]
  ELSE NotExternal

(***************************************************************************)
(* markSmartCropImages(ele).  The page configuration is [variant,          *)
(* smartCrops, pageMeta, prefixes, marker]: the source variant in use,     *)
(* window.hlx.aemassets.smartCrops, whether the page has the meta tag      *)
(* smartcrop=true, externalImageUrlPrefixes and the marker handed to       *)
(* decorateExternalImages.                                                 *)
(***************************************************************************)
\* /^(https?:\/\/(.*)\/adobe\/assets\/urn:aaid:aem:(.*))/gm.test(src)
isDMOpenAPIUrl(src) ==
  /\ src # <<>>
  /\ src[1] = "https://"
  /\ \E i \in 2..Len(src) : src[i] = "/adobe/assets/urn:aaid:aem:"

\* The links and standalone images the marker collects: all of them with
\* the page-level meta tag, else those in a smart-crop scope.
IsCandidate(node, cfg) ==
  node.tag \in {"a", "img"} /\ (cfg.pageMeta \/ node.scoped)

MarkNode(node, cfg) ==
  LET src == getImageSrcUrl(TopElement(node))
  IN IF IsCandidate(node, cfg) /\ Truthy(src) /\ isDMOpenAPIUrl(src)
     THEN [node EXCEPT !.status = <<"loading">>]
     ELSE node

markSmartCropImages(dom, cfg) ==
  IF ~cfg.smartCrops.defined THEN dom
  ELSE [i \in DOMAIN dom |-> MarkNode(dom[i], cfg)]

(***************************************************************************)
(* decorateExternalImages(ele, deliveryMarker)                             *)
(***************************************************************************)
\* The default value of the breakpoints parameter.
DefaultBreakpoints ==
  <<[media |-> <<"(min-width: 600px)">>, width |-> <<"2000">>,
     smartcrop |-> Undefined],
    [media |-> Undefined, width |-> <<"750">>, smartcrop |-> Undefined]>>

\* createOptimizedPictureHandler(extImageSrc, null, useSmartcrop): the third
\* positional parameter is eager for createOptimizedPicture and
\* createOptimizedPictureForDM, useSmartcrop for the DM OpenAPI synthesizer.
CallHandler(handler, src, useSmartcrop, cfg) ==
  CASE handler = "createOptimizedPicture" ->
         createOptimizedPicture("positional", src, Undefined, useSmartcrop,
                                DefaultBreakpoints, <<"webp">>)
    [] handler = "createOptimizedPictureForDM" ->
         createOptimizedPictureForDM(src, Undefined, useSmartcrop,
                                     DefaultBreakpoints)
    [] handler = "createOptimizedPictureForDMOpenAPI" ->
         createOptimizedPictureForDMOpenAPI(src, Undefined, useSmartcrop,
                                            FALSE, DefaultBreakpoints,
                                            cfg.smartCrops)

\* imageFormat || 'webp'
FormatOrWebp(imageFormat) ==
  IF Truthy(imageFormat) THEN imageFormat ELSE <<"webp">>

\* extPicture.setAttribute('data-smartcrop-status', 'loaded')
MarkLoaded(pic) ==
  IF pic.kind = "picture" THEN [pic EXCEPT !.status = <<"loaded">>] ELSE pic

SkipCopy(pic, src) == pic
\* The copy of the query parameters of the original onto every source and
\* img of the new picture: appendQueryParams(new URL(child url, extImageSrc),
\* new URL(extImageSrc).searchParams).  new URL(extImageSrc) throws on a
\* relative URL; a child's URL is absolute, so the base changes nothing.
CopyQueryParams(pic, src) ==
  IF pic.kind # "picture" \/ ~CanParse(src) THEN Thrown
  ELSE [pic EXCEPT !.children =
          [i \in DOMAIN pic.children |->
             [pic.children[i] EXCEPT !.url =
                appendQueryParams(pic.children[i].url,
                                  ParseQuery(src.query))]]]

\* The picture that replaces an external node with a source, or Thrown.
\* Positional variant: with a handler the handler is called and the query
\* parameters are copied; only without one does the status loading select
\* smart-crop synthesis.  Options-record variant: the status loading
\* selects smart-crop synthesis, anything else createOptimizedPicture
\* followed by the copy.
SmartcropReplacement(variant, src, fmt, cfg) ==
  MarkLoaded(createOptimizedPictureWithSmartcrop(variant, src, <<>>, FALSE,
                                                 <<>>, fmt, cfg.smartCrops))

ReplacementFor(node, c, cfg) ==
  LET loading == node.status = <<"loading">>
  IN IF cfg.variant = "positional"
     THEN IF c.handler # "null"
          THEN CopyQueryParams(CallHandler(c.handler, node.src, loading, cfg),
                               node.src)
          ELSE IF loading
          THEN SmartcropReplacement("positional", node.src, <<"webp">>, cfg)
          ELSE CopyQueryParams(
                 createOptimizedPicture("positional", node.src, <<>>, FALSE,
                                        DefaultBreakpoints, <<"webp">>),
                 node.src)
     ELSE IF loading
          THEN SmartcropReplacement("options", node.src,
                                    FormatOrWebp(c.imageFormat), cfg)
          ELSE CopyQueryParams(
                 createOptimizedPicture("options", node.src, <<>>, FALSE,
                                        DefaultBreakpoints,
                                        FormatOrWebp(c.imageFormat)),
                 node.src)

Classify(node, cfg) ==
  isExternalImage(cfg.variant, TopElement(node), cfg.marker, cfg.prefixes)

ClassifyInner(child, cfg) ==
  isExternalImage(cfg.variant, InnerElement(child), cfg.marker, cfg.prefixes)

ThrownNode == PictureNode(Thrown)

\* The iterations of extImages.forEach on the img children of a picture
\* (querySelectorAll('a,img') lists them too): a child classified external
\* would be replaced, inside its picture, by a picture of its own, written
\* here as the child with the tag picture.
DecorateInner(child, cfg) ==
  LET c == ClassifyInner(child, cfg)
  IN IF child.tag # "img" \/ ~c.isExternal THEN child
     ELSE IF ReplacementFor(ImgNode(child.url, FALSE), c, cfg) = Thrown
     THEN [child EXCEPT !.tag = "error"]
     ELSE [child EXCEPT !.tag = "picture"]

\* The picture node with its children after the iterations, or ThrownNode
\* when one of them threw.
WithChildren(node, ch) ==
  IF \E i \in DOMAIN ch : ch[i].tag = "error" THEN ThrownNode
  ELSE [node EXCEPT !.pic.children = ch]

DecoratePicture(node, cfg) ==
  WithChildren(node, [i \in DOMAIN node.pic.children |->
                        DecorateInner(node.pic.children[i], cfg)])

\* One iteration of extImages.forEach on a link or image node of the
\* subtree, or the iterations on the img children of a picture node: the
\* node that takes its place, or ThrownNode when an iteration threw.
DecorateClassified(node, c, cfg) ==
  IF ~c.isExternal THEN node
  ELSE IF ~Truthy(getImageSrcUrl(TopElement(node))) THEN node
  ELSE PictureNode(ReplacementFor(node, c, cfg))

DecorateNode(node, cfg) ==
  IF node.tag = "picture" THEN DecoratePicture(node, cfg)
  ELSE DecorateClassified(node, Classify(node, cfg), cfg)

\* The pass: the marker, then the nodes in document order until one throws.
\* The result is [dom, threw].
\* The subtree after the iteration on its node i gave n: a throw ends the
\* forEach and leaves the nodes from i onwards as they were.
AfterIteration(before, i, n) ==
  IF n = ThrownNode THEN [before EXCEPT !.threw = TRUE]
  ELSE [before EXCEPT !.dom[i] = n]

DecorateLoop(dom, cfg) ==
  LET F[i \in 0..Len(dom)] ==
        IF i = 0 THEN [dom |-> dom, threw |-> FALSE]
        ELSE IF F[i - 1].threw THEN F[i - 1]
        ELSE AfterIteration(F[i - 1], i, DecorateNode(dom[i], cfg))
  IN F[Len(dom)]

decorateExternalImages(dom, cfg) ==
  DecorateLoop(markSmartCropImages(dom, cfg), cfg)

(***************************************************************************)
(* decorateImagesFromAlt(ele).  An alt text is a token sequence; in an     *)
(* encoded payload the tokens "%7B" "%7D" "%3A" "%2C" are the escapes of   *)
(* { } : , and a lone "%" is a malformed escape.  A JSON string is one     *)
(* token, its quotes included in the token boundary.                       *)
(***************************************************************************)
DecodeComponentTok(t) ==
  CASE t = "%7B" -> "{"
    [] t = "%7D" -> "}"
    [] t = "%3A" -> ":"
    [] t = "%2C" -> ","
    [] OTHER -> t

\* decodeURIComponent(alt): [ok, text]; a malformed escape is a URIError.
\* getAttribute gives null for an img without alt, which decodes as "null".
decodeURIComponent(alt) ==
  IF alt = Undefined THEN [ok |-> TRUE, text |-> <<"null">>]
  ELSE IF \E i \in DOMAIN alt : alt[i] = "%" THEN [ok |-> FALSE, text |-> <<>>]
  ELSE [ok |-> TRUE, text |-> [i \in DOMAIN alt |-> DecodeComponentTok(alt[i])]]

\* The members of an object literal's inside: key : value , key : value ...
IsMemberList(s) ==
  /\ Len(s) % 4 = 3
  /\ \A i \in DOMAIN s :
       /\ i % 4 = 2 => s[i] = ":"
       /\ i % 4 = 0 => s[i] = ","
       /\ i % 4 \in {1, 3} => s[i] \notin {":", ",", "{", "}"}

MemberList(s) ==
  [j \in 1..((Len(s) + 1) \div 4) |-> [k |-> s[4 * j - 3], v |-> s[4 * j - 1]]]

\* JSON.parse(text): [ok, object, members]; ok is FALSE on a SyntaxError,
\* object is FALSE for the value null.
JSONParse(text) ==
  LET n == Len(text)
      inner == SubSeq(text, 2, n - 1)
  IN IF text = <<"null">>
     THEN [ok |-> TRUE, object |-> FALSE, members |-> <<>>]
     ELSE IF n >= 2 /\ text[1] = "{" /\ text[n] = "}"
             /\ (inner = <<>> \/ IsMemberList(inner))
     THEN [ok |-> TRUE, object |-> TRUE,
           members |-> IF inner = <<>> THEN <<>> ELSE MemberList(inner)]
     ELSE [ok |-> FALSE, object |-> FALSE, members |-> <<>>]

\* obj[key]: a JSON string as a one-token text, undefined when absent.
Member(members, key) ==
  LET vs == GetAll(members, key)
  IN IF vs = <<>> THEN Undefined ELSE <<vs[Len(vs)]>>

\* The URL a delivery URL string denotes.
UrlOfString(s) ==
  CASE s = <<"https://x/adobe/assets/urn:aaid:aem:1">> ->
         [abs |-> TRUE, host |-> <<"x">>,
          path |-> <<"/adobe/assets/urn:aaid:aem:", "1">>, query |-> <<>>]
    [] s = <<"https://cdn/img.jpg">> ->
         [abs |-> TRUE, host |-> <<"cdn">>,
          path |-> <<"/", "img", ".", "jpg">>, query |-> <<>>]
    [] OTHER ->
         [abs |-> FALSE, host |-> <<>>,
          path |-> <<"/", "media", "/", "img", ".", "jpg">>, query |-> <<>>]

\* The synthesizer call on a decoded payload.  alt = undefined takes the
\* parameter's default ''.
NewPictureFromAlt(deliveryUrl, altText, cfg) ==
  LET src == UrlOfString(deliveryUrl)
      alt == IF altText = Undefined THEN <<>> ELSE altText
      openAPI == isDMOpenAPIUrl(UrlString(src))
  IN IF cfg.variant = "positional"
     THEN IF openAPI
          THEN createOptimizedPictureForDMOpenAPI(src, alt, TRUE, FALSE,
                  DefaultBreakpoints, cfg.smartCrops)
          ELSE createOptimizedPictureForDM(src, alt, FALSE, DefaultBreakpoints)
     ELSE IF openAPI
          THEN createOptimizedPictureWithSmartcrop("options", src, alt, FALSE,
                  <<>>, <<"webp">>, cfg.smartCrops)
          ELSE createOptimizedPicture("options", src, alt, FALSE,
                  DefaultBreakpoints, <<"webp">>)

\* pictureElement.querySelector('img'): the position of the first img child,
\* 0 for null.
FirstImg(pic) ==
  LET imgs == {i \in DOMAIN pic.children : pic.children[i].tag = "img"}
  IN IF imgs = {} THEN 0 ELSE CHOOSE i \in imgs : \A j \in imgs : i <= j

\* pictureElement.parentElement.replaceChild(newPictureElement, ...), not
\* reached when the synthesizer threw (caught).
ReplaceUnlessThrown(pic, new) == IF new = Thrown THEN pic ELSE new

\* The body of the try block for one picture: the picture that replaces it,
\* or the picture itself when the block returns early or throws.
ResolveAlt(pic, alt, cfg) ==
  LET d == decodeURIComponent(alt)
      j == JSONParse(d.text)
      deliveryUrl == Member(j.members, "deliveryUrl")
  IN IF ~d.ok \/ ~j.ok THEN pic          \* URIError / SyntaxError, caught
     ELSE IF ~j.object THEN pic          \* destructuring null throws, caught
     ELSE IF ~Truthy(deliveryUrl) \/ deliveryUrl = <<"">> THEN pic
     ELSE ReplaceUnlessThrown(pic,
            NewPictureFromAlt(deliveryUrl, Member(j.members, "altText"), cfg))

\* imgElement.getAttribute('alt') on a picture without img throws, outside
\* the try block.
ImgMissing(pic) == FirstImg(pic) = 0

AltNode(node, cfg) ==
  IF node.tag # "picture" THEN node
  ELSE IF ImgMissing(node.pic) THEN ThrownNode
  ELSE PictureNode(ResolveAlt(node.pic, node.pic.children[FirstImg(node.pic)].alt, cfg))

\* The pass over the pictures in document order until one throws: the
\* result is [dom, threw].
decorateImagesFromAlt(dom, cfg) ==
  LET F[i \in 0..Len(dom)] ==
        IF i = 0 THEN [dom |-> dom, threw |-> FALSE]
        ELSE IF F[i - 1].threw THEN F[i - 1]
        ELSE AfterIteration(F[i - 1], i, AltNode(dom[i], cfg))
  IN F[Len(dom)]

(***************************************************************************)
(* State.                                                                  *)
(*   q*: the codec: the input URL and parameter set, and the URL         *)
(*       after one application and after a second application.             *)
(*   p*: one synthesizer call: its arguments, the global smart-crop       *)
(*       configuration, the function called and what it returned.          *)
(*   blockName[b]: block.dataset.blockName; two blocks may share a name.   *)
(*   blockStatus[b]: block.dataset.blockStatus, "unloaded" standing for   *)
(*       any value other than loading / loaded.                            *)
(*   statusLog[b]: the values loadBlock has written to it, in order.       *)
(*   calls[c]: one loadBlock call: where it is (idle: not made yet,        *)
(*       awaiting: suspended at await Promise.all, done: returned), its    *)
(*       block, the status it observed, whether it passed the gate, the    *)
(*       state of its cssLoaded promise, the state of its module branch    *)
(*       (decorationComplete) and the state of the promise it returned.    *)
(*   head: the stylesheet links of document.head, in order.                *)
(*   decorationCount[b], invocationCount[b]: decoration passes started on  *)
(*       b and invocations of the module's default export with b.          *)
(*   d*: the decoration passes over a subtree: the page's configuration,  *)
(*       the subtree before and after the last pass, whether that pass     *)
(*       threw, and which passes have run.                                 *)
(***************************************************************************)
VARIABLES qUrl, qParams, qOnce, qTwice, qStep,
          pIn, pCfg, pFn, pOut,
          blockName, blockStatus, statusLog, calls, head, decorationCount,
          invocationCount,
          dCfg, dPrev, dOut, dThrew, dStep

qVars == <<qUrl, qParams, qOnce, qTwice, qStep>>
pVars == <<pIn, pCfg, pFn, pOut>>
bVars == <<blockName, blockStatus, statusLog, calls, head, decorationCount,
           invocationCount>>
dVars == <<dCfg, dPrev, dOut, dThrew, dStep>>
vars == <<qVars, pVars, bVars, dVars>>

(***************************************************************************)
(* Inputs.                                                                 *)
(***************************************************************************)
InputKeys == {"width", "crop", "foo"}
RawValues == {<<"1", ",", "2">>, <<"1", "%2C", "2">>}
ParamValues == {<<"7">>, <<"1", ",", "2">>}

InputUrls ==
  {[abs |-> TRUE, host |-> <<"cdn">>, path |-> <<"/", "img", ".", "jpg">>,
    query |-> q] :
     q \in SeqsUpTo([k : InputKeys, v : RawValues], MaxUrlQuery)}

InputParams == SeqsUpTo([k : InputKeys, v : ParamValues], MaxParams)

InputSrcs ==
  {[abs |-> TRUE, host |-> <<"cdn">>, path |-> <<"/", "img", ".", "jpg">>,
    query |-> <<>>],
   [abs |-> TRUE, host |-> <<"cdn">>,
    path |-> <<"/", "a", ".", "b", "/", "img", ".", "png">>,
    query |-> <<[k |-> "smartcrop", v |-> <<"old">>],
                [k |-> "foo", v |-> <<"1", ",", "2">>]>>],
   [abs |-> TRUE, host |-> <<"cdn">>, path |-> <<"/", "img">>,
    query |-> <<[k |-> "width", v |-> <<"10">>]>>],
   [abs |-> FALSE, host |-> <<>>, path |-> <<"img", ".", "png">>,
    query |-> <<>>]}

InputBreakpoints ==
  {[media |-> <<"(min-width: 600px)">>, width |-> <<"2000">>,
    smartcrop |-> Undefined],
   [media |-> Undefined, width |-> <<"750">>, smartcrop |-> Undefined],
   [media |-> <<"(max-width: 599px)">>, width |-> Undefined,
    smartcrop |-> <<"small">>],
   [media |-> Undefined, width |-> <<"400">>, smartcrop |-> <<"large">>]}

InputConfigs ==
  {[defined |-> FALSE, entries |-> <<>>],
   [defined |-> TRUE, entries |-> <<>>],
   [defined |-> TRUE, entries |->
      <<[name |-> <<"small">>, minWidth |-> <<"0">>, maxWidth |-> <<"767">>],
        [name |-> <<"large">>, minWidth |-> <<"768">>,
         maxWidth |-> <<"1920">>]>>]}

InputFormats ==
  {[variant |-> "positional", imageFormat |-> <<"webp">>],
   [variant |-> "options", imageFormat |-> <<"webp">>],
   [variant |-> "options", imageFormat |-> <<"avif">>]}

InputAlts ==
  {[alt |-> <<"cat">>, eager |-> TRUE], [alt |-> Undefined, eager |-> FALSE]}

NoUrl == [abs |-> TRUE, host |-> <<>>, path |-> <<>>, query |-> <<>>]

qIdle ==
  /\ qUrl = NoUrl /\ qParams = <<>> /\ qOnce = NoUrl /\ qTwice = NoUrl
  /\ qStep = "idle"

pIdle ==
  /\ pIn = [src |-> NoUrl, alt |-> Undefined, eager |-> FALSE,
            breakpoints |-> <<>>, variant |-> "positional",
            imageFormat |-> <<"webp">>, useSmartcrop |-> FALSE]
  /\ pCfg = [defined |-> FALSE, entries |-> <<>>]
  /\ pFn = "idle"
  /\ pOut = Thrown

Calls == 1..MaxCalls
Blocks == 1..NumBlocks

IdleCall == [pc |-> "idle", block |-> 0, observed |-> "none", gate |-> FALSE,
             css |-> "none", mod |-> "none", result |-> "none"]

BlockNames == {"hero", "cards"}

bStart ==
  /\ blockStatus = [b \in Blocks |-> "unloaded"]
  /\ statusLog = [b \in Blocks |-> <<>>]
  /\ calls = [c \in Calls |-> IdleCall]
  /\ head = <<>>
  /\ decorationCount = [b \in Blocks |-> 0]
  /\ invocationCount = [b \in Blocks |-> 0]

\* Blocks are interchangeable, so the names are given in one order only:
\* the blocks named hero come first.
bInit ==
  /\ blockName \in [Blocks -> BlockNames]
  /\ \A b1, b2 \in Blocks :
       (b1 < b2 /\ blockName[b1] = "cards") => blockName[b2] = "cards"
  /\ bStart

bIdle == blockName = [b \in Blocks |-> "hero"] /\ bStart

(***************************************************************************)
(* Inputs of the decoration passes.                                        *)
(***************************************************************************)
Marker == <<"//External Image//">>

CropUrl ==
  [abs |-> TRUE, host |-> <<"cdn">>, path |-> <<"/", "img", ".", "jpg">>,
   query |-> <<[k |-> "crop", v |-> <<"1", ",", "2">>]>>]

AssetUrl ==
  [abs |-> TRUE, host |-> <<"dm">>,
   path |-> <<"/adobe/assets/urn:aaid:aem:", "1", "/", "img", ".", "jpg">>,
   query |-> <<[k |-> "smartcrop", v |-> <<"old">>],
               [k |-> "foo", v |-> <<"7">>]>>]

AssetUrlPlain ==
  [abs |-> TRUE, host |-> <<"dm">>,
   path |-> <<"/adobe/assets/urn:aaid:aem:", "2", "/", "img", ".", "avif">>,
   query |-> <<[k |-> "width", v |-> <<"10">>]>>]

RelativeUrl ==
  [abs |-> FALSE, host |-> <<>>,
   path |-> <<"/", "media", "/", "img", ".", "jpg">>, query |-> <<>>]

\* An asset URL without extension; its query value ends in .png.
PageUrl ==
  [abs |-> TRUE, host |-> <<"dm">>,
   path |-> <<"/adobe/assets/urn:aaid:aem:", "3">>,
   query |-> <<[k |-> "foo", v |-> <<"x", ".", "png">>]>>]

UpperUrl ==
  [abs |-> TRUE, host |-> <<"cdn">>, path |-> <<"/", "img", ".", "JPG", " ">>,
   query |-> <<>>]

SvgUrl ==
  [abs |-> TRUE, host |-> <<"cdn">>, path |-> <<"/", "logo", ".", "svg">>,
   query |-> <<>>]

OtherUrl ==
  [abs |-> TRUE, host |-> <<"other">>, path |-> <<"/", "img", ".", "png">>,
   query |-> <<>>]

LegacyUrl ==
  [abs |-> TRUE, host |-> <<"legacy">>, path |-> <<"/", "img", ".", "gif">>,
   query |-> <<>>]

\* encodeURIComponent(JSON.stringify({deliveryUrl, altText: "cat"}))
EncodedPayload(deliveryUrl) ==
  <<"%7B", "deliveryUrl", "%3A", deliveryUrl, "%2C", "altText", "%3A", "cat",
    "%7D">>

\* A picture of the markup: one source and an img with the given alt.
MarkupPicture(alt) ==
  Picture(<<SourceEl(Undefined, <<"image/", "webp">>, UpperUrl),
            ImgEl(alt, FALSE, UpperUrl)>>, {}, Undefined)

InputAltTexts ==
  {EncodedPayload("https://x/adobe/assets/urn:aaid:aem:1"),
   EncodedPayload("https://cdn/img.jpg"),
   EncodedPayload("/media/img.jpg"),
   <<"%7B", "deliveryUrl", "%3A", "https://cdn/img.jpg", "%7D">>,
   <<"%7B", "altText", "%3A", "cat", "%7D">>,
   <<"plain text">>,
   <<"100", "%">>}

InputNodes ==
  {LinkNode(CropUrl, <<" ", "//External Image//", " ">>, FALSE),
   LinkNode(AssetUrl, <<"photo">>, TRUE),
   LinkNode(RelativeUrl, <<"photo">>, FALSE),
   LinkNode(PageUrl, <<"photo">>, TRUE),
   LinkNode(NoSrc, <<"//External Image//">>, TRUE),
   ImgNode(UpperUrl, FALSE),
   ImgNode(SvgUrl, FALSE),
   ImgNode(OtherUrl, FALSE),
   ImgNode(LegacyUrl, FALSE),
   ImgNode(AssetUrlPlain, FALSE),
   PictureNode(Picture(<<SourceEl(Undefined, Undefined, UpperUrl)>>, {},
                       Undefined))}
    \cup {PictureNode(MarkupPicture(a)) : a \in InputAltTexts}

SmartCropsConfig ==
  [defined |-> TRUE, entries |->
     <<[name |-> <<"small">>, minWidth |-> <<"0">>, maxWidth |-> <<"767">>],
       [name |-> <<"large">>, minWidth |-> <<"768">>,
        maxWidth |-> <<"1920">>]>>]

NoSmartCrops == [defined |-> FALSE, entries |-> <<>>]

PrefixEntry(isTuple, prefix, handler, format) ==
  [isTuple |-> isTuple, prefix |-> prefix, handler |-> handler,
   format |-> format]

PrefixesByHost ==
  <<PrefixEntry(TRUE, <<"https://", "dm">>,
                "createOptimizedPictureForDMOpenAPI", <<"avif">>),
    PrefixEntry(TRUE, <<"https://", "cdn">>, "createOptimizedPictureForDM",
                Undefined),
    PrefixEntry(FALSE, <<"https://", "legacy">>, "null", Undefined)>>

PrefixesCatchAll ==
  <<PrefixEntry(TRUE, <<"https://">>, "null", <<"png">>),
    PrefixEntry(TRUE, <<"https://", "dm">>,
                "createOptimizedPictureForDMOpenAPI", <<"avif">>)>>

PageConfig(variant, smartCrops, pageMeta, prefixes, marker) ==
  [variant |-> variant, smartCrops |-> smartCrops, pageMeta |-> pageMeta,
   prefixes |-> prefixes, marker |-> marker]

PageConfigsOf(v) ==
  {PageConfig(v, SmartCropsConfig, FALSE, PrefixesByHost, Marker),
   PageConfig(v, SmartCropsConfig, TRUE, PrefixesCatchAll, Marker),
   PageConfig(v, NoSmartCrops, FALSE, PrefixesByHost, Undefined)}

InputPageConfigs == PageConfigsOf("positional") \cup PageConfigsOf("options")

dIdle ==
  /\ dCfg = PageConfig("positional", NoSmartCrops, FALSE, <<>>, Undefined)
  /\ dPrev = <<>> /\ dOut = <<>>
  /\ dThrew = FALSE
  /\ dStep = "idle"

(***************************************************************************)
(* The codec specification: appendQueryParams applied once, then again     *)
(* with the same parameters to its own result.                             *)
(***************************************************************************)
InitCodec ==
  /\ qUrl \in InputUrls
  /\ qParams \in InputParams
  /\ qOnce = qUrl /\ qTwice = qUrl
  /\ qStep = "input"
  /\ pIdle
  /\ bIdle
  /\ dIdle

AppendOnce ==
  /\ qStep = "input"
  /\ qOnce' = appendQueryParams(qUrl, qParams)
  /\ qStep' = "once"
  /\ UNCHANGED <<qUrl, qParams, qTwice, pVars, bVars, dVars>>

AppendTwice ==
  /\ qStep = "once"
  /\ qTwice' = appendQueryParams(qOnce, qParams)
  /\ qStep' = "twice"
  /\ UNCHANGED <<qUrl, qParams, qOnce, pVars, bVars, dVars>>

NextCodec == AppendOnce \/ AppendTwice

SpecCodec == InitCodec /\ [][NextCodec]_vars

(***************************************************************************)
(* The synthesizer specification: one call of one synthesizer.             *)
(***************************************************************************)
InitPicture ==
  /\ \E s \in InputSrcs, a \in InputAlts, f \in InputFormats,
        b \in SeqsUpTo(InputBreakpoints, MaxBreakpoints) :
       pIn = [src |-> s, alt |-> a.alt, eager |-> a.eager, breakpoints |-> b,
              variant |-> f.variant, imageFormat |-> f.imageFormat,
              useSmartcrop |-> FALSE]
  /\ pCfg \in InputConfigs
  /\ pFn = "none"
  /\ pOut = Thrown
  /\ qIdle
  /\ bIdle
  /\ dIdle

CallCreateOptimizedPicture ==
  /\ pFn = "none"
  /\ pFn' = "createOptimizedPicture"
  /\ pOut' = createOptimizedPicture(pIn.variant, pIn.src, pIn.alt, pIn.eager,
                                    pIn.breakpoints, pIn.imageFormat)
  /\ UNCHANGED <<pIn, pCfg, qVars, bVars, dVars>>

CallCreateOptimizedPictureWithSmartcrop ==
  /\ pFn = "none"
  /\ pFn' = "createOptimizedPictureWithSmartcrop"
  /\ pOut' = createOptimizedPictureWithSmartcrop(pIn.variant, pIn.src, pIn.alt,
                pIn.eager, pIn.breakpoints, pIn.imageFormat, pCfg)
  /\ UNCHANGED <<pIn, pCfg, qVars, bVars, dVars>>

\* The DM synthesizers exist in the positional variant only.
CallCreateOptimizedPictureForDM ==
  /\ pFn = "none"
  /\ pIn.variant = "positional"
  /\ pFn' = "createOptimizedPictureForDM"
  /\ pOut' = createOptimizedPictureForDM(pIn.src, pIn.alt, pIn.eager,
                                         pIn.breakpoints)
  /\ UNCHANGED <<pIn, pCfg, qVars, bVars, dVars>>

CallCreateOptimizedPictureForDMOpenAPI ==
  /\ pFn = "none"
  /\ pIn.variant = "positional"
  /\ \E useSmartcrop \in BOOLEAN :
       /\ pIn' = [pIn EXCEPT !.useSmartcrop = useSmartcrop]
       /\ pOut' = createOptimizedPictureForDMOpenAPI(pIn.src, pIn.alt,
                     useSmartcrop, pIn.eager, pIn.breakpoints, pCfg)
  /\ pFn' = "createOptimizedPictureForDMOpenAPI"
  /\ UNCHANGED <<pCfg, qVars, bVars, dVars>>

NextPicture ==
  \/ CallCreateOptimizedPicture
  \/ CallCreateOptimizedPictureWithSmartcrop
  \/ CallCreateOptimizedPictureForDM
  \/ CallCreateOptimizedPictureForDMOpenAPI

SpecPicture == InitPicture /\ [][NextPicture]_vars

(***************************************************************************)
(* The decoration specification: the passes loadBlock runs on a block's    *)
(* markup, and decorateExternalImages run again on its own result.         *)
(***************************************************************************)
InitDecorate ==
  /\ dCfg \in InputPageConfigs
  /\ dPrev \in SeqsUpTo(InputNodes, MaxNodes)
  /\ dOut = dPrev
  /\ dThrew = FALSE
  /\ dStep = "input"
  /\ qIdle /\ pIdle /\ bIdle

RunDecorateExternalImages ==
  /\ dStep = "input"
  /\ \E r \in {decorateExternalImages(dOut, dCfg)} :
       dOut' = r.dom /\ dThrew' = r.threw
  /\ dPrev' = dOut
  /\ dStep' = "once"
  /\ UNCHANGED <<dCfg, qVars, pVars, bVars>>

RunDecorateExternalImagesAgain ==
  /\ dStep = "once"
  /\ \E r \in {decorateExternalImages(dOut, dCfg)} :
       dOut' = r.dom /\ dThrew' = r.threw
  /\ dPrev' = dOut
  /\ dStep' = "twice"
  /\ UNCHANGED <<dCfg, qVars, pVars, bVars>>

\* On its own, or after a first pass that returned (loadBlock order).
RunDecorateImagesFromAlt ==
  /\ dStep = "input" \/ (dStep = "once" /\ ~dThrew)
  /\ \E r \in {decorateImagesFromAlt(dOut, dCfg)} :
       dOut' = r.dom /\ dThrew' = r.threw
  /\ dPrev' = dOut
  /\ dStep' = "alt"
  /\ UNCHANGED <<dCfg, qVars, pVars, bVars>>

NextDecorate ==
  \/ RunDecorateExternalImages
  \/ RunDecorateExternalImagesAgain
  \/ RunDecorateImagesFromAlt

SpecDecorate == InitDecorate /\ [][NextDecorate]_vars

(***************************************************************************)
(* The block loader.  Each action is one run of JavaScript between two     *)
(* suspension points: the synchronous part of a loadBlock call, the load   *)
(* or error event of a stylesheet link, the settling of a dynamic import   *)
(* (with the synchronous part of the default export it invokes), the       *)
(* settling of the promise a default export returned, and the resumption   *)
(* of a loadBlock call after await Promise.all.                            *)
(***************************************************************************)
\* window.hlx.aemassets.blocks, with window.hlx.aemassets.codeBasePath set.
AemAssetsBlocks == {"hero"}

BasePath(name) ==
  IF name \in AemAssetsBlocks
  THEN <<"codeBasePath", "aemassets.codeBasePath">>
  ELSE <<"codeBasePath">>

\* `${basePath}/blocks/${blockName}/${blockName}.css`
CssHref(name) ==
  BasePath(name) \o <<"/blocks/", name, "/", name, ".css">>

PassesGateUnlessLoaded(status) == status # "loaded"
PassesGateUnlessLoading(status) == status # "loading"
PassesGateAlways(status) == TRUE
\* if (status !== 'loading' && status !== 'loaded')
PassesGate(status) == status # "loading" /\ status # "loaded"

HeadHasLinkNever(h, href) == FALSE
\* document.querySelector(`head > link[href="${href}"]`) finds a link
HeadHasLink(h, href) == \E i \in DOMAIN h : h[i].href = href

\* loadCSS(href): the link appended (if any) and the state of the promise.
LoadCSSHead(h, href, c) ==
  IF ~HeadHasLink(h, href)
  THEN Append(h, [href |-> href, owner |-> c, state |-> "loading"])
  ELSE h

LoadCSSPromiseUnresolved(h, href) == "pending"
\* resolve() at once when the link is already there; otherwise the promise
\* waits for the load or error event of the link just appended.
LoadCSSPromise(h, href) ==
  IF ~HeadHasLink(h, href) THEN "pending" ELSE "fulfilled"

\* Promise.all([cssLoaded, decorationComplete]): rejected as soon as one of
\* them is rejected, fulfilled once both are; decorationComplete is only
\* ever resolved.
PromiseAll(css, mod) ==
  IF css = "rejected" THEN "rejected"
  ELSE IF css = "fulfilled" /\ mod = "settled" THEN "fulfilled"
  ELSE "pending"

TryWithoutCatch(outcome) == IF outcome = "rejected" THEN "throw" ELSE "continue"
\* try { ... } catch (error) { console.log(...) }: whatever the try block
\* ends with, loadBlock continues after it.
TryCatch(outcome) == "continue"

\* block.dataset.blockStatus = 'loaded'
FinalStatus == "loaded"

\* What the end of the try block does to the call c on block b.
AfterTry(c, b, observed, outcome, log, st) ==
  IF TryCatch(outcome) = "continue"
  THEN /\ blockStatus' = [st EXCEPT ![b] = FinalStatus]
       /\ statusLog' = [log EXCEPT ![b] = Append(@, FinalStatus)]
       /\ calls' = [calls EXCEPT ![c].pc = "done", ![c].result = "fulfilled",
                                 ![c].block = b, ![c].gate = TRUE,
                                 ![c].observed = observed]
  ELSE /\ blockStatus' = st
       /\ statusLog' = log
       /\ calls' = [calls EXCEPT ![c].pc = "done", ![c].result = "rejected",
                                 ![c].block = b, ![c].gate = TRUE,
                                 ![c].observed = observed]

\* loadBlock(block), up to its first suspension point (or to its return).
\* Calls are numbered in the order in which they are made.
LoadBlock(c, b, decoration) ==
  /\ calls[c].pc = "idle"
  /\ \A c0 \in Calls : c0 < c => calls[c0].pc # "idle"
  /\ IF ~PassesGate(blockStatus[b])
     THEN /\ calls' = [calls EXCEPT ![c] =
                         [IdleCall EXCEPT !.pc = "done", !.block = b,
                                          !.observed = blockStatus[b],
                                          !.result = "fulfilled"]]
          /\ UNCHANGED <<blockStatus, statusLog, head, decorationCount,
                         invocationCount>>
     ELSE LET log == [statusLog EXCEPT ![b] = Append(@, "loading")]
              st == [blockStatus EXCEPT ![b] = "loading"]
              href == CssHref(blockName[b])
          IN /\ decorationCount' = [decorationCount EXCEPT ![b] = @ + 1]
             /\ UNCHANGED invocationCount
             /\ IF decoration = "throws"
                THEN \* decorateExternalImages / decorateImagesFromAlt threw
                     /\ AfterTry(c, b, blockStatus[b], "rejected", log, st)
                     /\ UNCHANGED head
                ELSE /\ blockStatus' = st
                     /\ statusLog' = log
                     /\ head' = LoadCSSHead(head, href, c)
                     /\ calls' = [calls EXCEPT ![c] =
                          [pc |-> "awaiting", block |-> b,
                           observed |-> blockStatus[b], gate |-> TRUE,
                           css |-> LoadCSSPromise(head, href),
                           mod |-> "importing", result |-> "pending"]]
  /\ UNCHANGED <<blockName, qVars, pVars, dVars>>

\* link.onload = resolve
LinkLoad(i) ==
  /\ head[i].state = "loading"
  /\ head' = [head EXCEPT ![i].state = "loaded"]
  /\ calls' = [calls EXCEPT ![head[i].owner].css = "fulfilled"]
  /\ UNCHANGED <<blockStatus, statusLog, decorationCount, invocationCount,
                 blockName, qVars, pVars, dVars>>

\* link.onerror = reject
LinkError(i) ==
  /\ head[i].state = "loading"
  /\ head' = [head EXCEPT ![i].state = "error"]
  /\ calls' = [calls EXCEPT ![head[i].owner].css = "rejected"]
  /\ UNCHANGED <<blockStatus, statusLog, decorationCount, invocationCount,
                 blockName, qVars, pVars, dVars>>

\* await import(...) rejects: caught, logged, resolve()
ImportFails(c) ==
  /\ calls[c].mod = "importing"
  /\ calls' = [calls EXCEPT ![c].mod = "settled"]
  /\ UNCHANGED <<blockStatus, statusLog, head, decorationCount,
                 invocationCount, blockName,
                 qVars, pVars, dVars>>

\* await import(...) fulfils.  The module has no default export, or its
\* default export is invoked with the block and returns, throws, or returns
\* a promise that is still pending.
ImportSucceeds(c, module) ==
  /\ calls[c].mod = "importing"
  /\ invocationCount' =
       IF module = "nodefault" THEN invocationCount
       ELSE [invocationCount EXCEPT ![calls[c].block] = @ + 1]
  /\ calls' = [calls EXCEPT ![c].mod =
                 IF module = "async" THEN "running" ELSE "settled"]
  /\ UNCHANGED <<blockStatus, statusLog, head, decorationCount, blockName,
                 qVars, pVars, dVars>>

\* await mod.default(block) settles: fulfilled, or rejected and caught.
DefaultSettles(c, how) ==
  /\ calls[c].mod = "running"
  /\ how \in {"fulfilled", "rejected"}
  /\ calls' = [calls EXCEPT ![c].mod = "settled"]
  /\ UNCHANGED <<blockStatus, statusLog, head, decorationCount,
                 invocationCount, blockName,
                 qVars, pVars, dVars>>

\* await Promise.all([...]) settles and loadBlock runs to its return.
Resume(c) ==
  /\ calls[c].pc = "awaiting"
  /\ PromiseAll(calls[c].css, calls[c].mod) # "pending"
  /\ AfterTry(c, calls[c].block, calls[c].observed,
              PromiseAll(calls[c].css, calls[c].mod), statusLog, blockStatus)
  /\ UNCHANGED <<head, decorationCount, invocationCount, blockName,
                 qVars, pVars, dVars>>

Init == bInit /\ qIdle /\ pIdle /\ dIdle

Next ==
  \/ \E c \in Calls, b \in Blocks, d \in {"ok", "throws"} : LoadBlock(c, b, d)
  \/ \E i \in DOMAIN head : LinkLoad(i)
  \/ \E i \in DOMAIN head : LinkError(i)
  \/ \E c \in Calls : ImportFails(c)
  \/ \E c \in Calls, m \in {"nodefault", "sync", "throws", "async"} :
       ImportSucceeds(c, m)
  \/ \E c \in Calls, how \in {"fulfilled", "rejected"} : DefaultSettles(c, how)
  \/ \E c \in Calls : Resume(c)

Spec == Init /\ [][Next]_vars

(***************************************************************************)
(* The block loader under fair scheduling.  The browser delivers the load  *)
(* or error event of every stylesheet link it was given, every dynamic     *)
(* import settles, every promise a default export returned settles, and    *)
(* the event loop runs the continuation of an await whose promise has      *)
(* settled.  Nothing obliges anyone to call loadBlock; the page makes at    *)
(* most MaxFairCalls calls, on a page whose first two blocks are two blocks *)
(* of the same name.                                                       *)
(***************************************************************************)
InitFair ==
  /\ blockName = [b \in Blocks |-> IF b <= 2 THEN "hero" ELSE "cards"]
  /\ bStart /\ qIdle /\ pIdle /\ dIdle

FairCalls == {c \in Calls : c <= MaxFairCalls}

LinkSettles(i) == i \in DOMAIN head /\ (LinkLoad(i) \/ LinkError(i))

ImportSettles(c) ==
  ImportFails(c)
    \/ \E m \in {"nodefault", "sync", "throws", "async"} : ImportSucceeds(c, m)

DefaultExportSettles(c) ==
  \E how \in {"fulfilled", "rejected"} : DefaultSettles(c, how)

Fairness ==
  /\ \A i \in FairCalls : WF_vars(LinkSettles(i))
  /\ \A c \in FairCalls : WF_vars(ImportSettles(c))
  /\ \A c \in FairCalls : WF_vars(DefaultExportSettles(c))
  /\ \A c \in FairCalls : WF_vars(Resume(c))

NextFair ==
  \/ \E c \in FairCalls, b \in Blocks, d \in {"ok", "throws"} :
       LoadBlock(c, b, d)
  \/ \E i \in DOMAIN head : LinkLoad(i)
  \/ \E i \in DOMAIN head : LinkError(i)
  \/ \E c \in FairCalls : ImportFails(c)
  \/ \E c \in FairCalls, m \in {"nodefault", "sync", "throws", "async"} :
       ImportSucceeds(c, m)
  \/ \E c \in FairCalls, how \in {"fulfilled", "rejected"} :
       DefaultSettles(c, how)
  \/ \E c \in FairCalls : Resume(c)

SpecFair == InitFair /\ [][NextFair]_vars /\ Fairness

(***************************************************************************)
(* Properties of the block loader (under Spec).                            *)
(***************************************************************************)
CallsOn(b) == {c \in Calls : calls[c].pc # "idle" /\ calls[c].block = b}

\* C1: whatever the number and interleaving of loadBlock calls on a block,
\* the decoration pass runs exactly once (once a call has been made) and the
\* module's default export is invoked at most once; exactly the calls that
\* observed a status other than loading / loaded passed the gate, at most one
\* call per block did, and the status is no longer unloaded once it has.
C1_SingleDecorationAndInvocation ==
  \A b \in Blocks :
    /\ decorationCount[b] <= 1
    /\ invocationCount[b] <= 1
    /\ CallsOn(b) # {} => decorationCount[b] = 1
    /\ Cardinality({c \in CallsOn(b) : calls[c].gate}) <= 1
    /\ \A c \in CallsOn(b) :
         /\ calls[c].gate <=> calls[c].observed \notin {"loading", "loaded"}
         /\ calls[c].gate => blockStatus[b] \in {"loading", "loaded"}

\* Two calls on the same block are in flight or finished, the second made
\* while the first was still loading, and the default export has run.
C1_Witness ==
  \E b \in Blocks, c1, c2 \in Calls :
    /\ c1 # c2
    /\ calls[c1].block = b /\ calls[c2].block = b
    /\ calls[c1].gate /\ calls[c1].pc = "awaiting"
    /\ calls[c2].pc = "done" /\ calls[c2].observed = "loading"
    /\ invocationCount[b] = 1

\* C2 (as claimed): while a branch started by a load is still in flight (the
\* stylesheet has neither loaded nor failed, or the module branch has not
\* finished), the status of its block is not loaded.
C2_LoadedOnlyAfterBothBranches ==
  \A c \in Calls :
    (calls[c].gate /\ blockStatus[calls[c].block] = "loaded") =>
      /\ calls[c].css # "pending"
      /\ calls[c].mod \notin {"importing", "running"}

\* Every step changes at most the calls on one block, and the status and the
\* counters of that block only.
OneBlockPerStep ==
  \A c \in Calls :
    calls'[c] # calls[c] =>
      /\ \A c2 \in Calls :
           (calls[c2].pc # "idle" /\ calls[c2].block # calls'[c].block)
             => calls'[c2] = calls[c2]
      /\ \A b \in Blocks \ {calls'[c].block} :
           /\ blockStatus'[b] = blockStatus[b]
           /\ statusLog'[b] = statusLog[b]
           /\ decorationCount'[b] = decorationCount[b]
           /\ invocationCount'[b] = invocationCount[b]

NoCallRejected ==
  \A c \in Calls :
    /\ calls[c].result # "rejected"
    /\ (calls[c].pc = "done" /\ calls[c].gate) =>
         /\ calls[c].result = "fulfilled"
         /\ blockStatus[calls[c].block] = "loaded"

\* C3: no failure (of the decoration, the stylesheet, the import or the
\* default export) makes the promise of a loadBlock call reject; the call
\* that loads a block returns with the block loaded; and no step of a load
\* changes the status or the load of another block.
C3_FailureIsolation == []NoCallRejected /\ [][OneBlockPerStep]_vars

\* A load whose stylesheet failed has returned, fulfilled, with its block
\* loaded, while another block is still loading.
C3_Witness ==
  \E c1, c2 \in Calls :
    /\ calls[c1].pc = "done" /\ calls[c1].gate /\ calls[c1].css = "rejected"
    /\ calls[c1].result = "fulfilled"
    /\ calls[c2].pc = "awaiting" /\ calls[c2].block # calls[c1].block
    /\ blockStatus[calls[c2].block] = "loading"

\* C4: the writes loadBlock makes to a block's status are, in order, loading
\* and then loaded, and nothing after: the status goes unloaded -> loading ->
\* loaded, never back, and loaded is terminal.
C4_MonotonicStatus ==
  \A b \in Blocks :
    /\ statusLog[b] \in {<<>>, <<"loading">>, <<"loading", "loaded">>}
    /\ blockStatus[b] = IF statusLog[b] = <<>> THEN "unloaded"
                        ELSE statusLog[b][Len(statusLog[b])]

\* A block is loaded and a later call on it has returned without a write.
C4_Witness ==
  \E b \in Blocks, c \in Calls :
    /\ statusLog[b] = <<"loading", "loaded">>
    /\ calls[c].block = b /\ calls[c].pc = "done"
    /\ calls[c].observed = "loaded"

\* C17 (as claimed): a call that took its block from unloaded to loading
\* has started both the stylesheet load and the module import by the time the
\* block is loaded, also when a decoration pass threw.
C17_BothBranchesStarted ==
  \A c \in Calls :
    (calls[c].gate /\ blockStatus[calls[c].block] = "loaded") =>
      /\ calls[c].css # "none"
      /\ calls[c].mod # "none"

\* The call c passed the gate and has returned the block, loaded.
Completed(c) ==
  /\ calls[c].pc = "done" /\ calls[c].gate
  /\ calls[c].result = "fulfilled"
  /\ blockStatus[calls[c].block] = "loaded"

\* C18: under fair scheduling every loadBlock call that found its block
\* unloaded eventually returns with the block loaded, and no block stays in
\* status loading forever.
C18_RunToCompletion ==
  /\ \A c \in Calls : (calls[c].pc # "idle" /\ calls[c].gate) ~> Completed(c)
  /\ \A b \in Blocks : (blockStatus[b] = "loading") ~> (blockStatus[b] = "loaded")

\* A load that waited for its stylesheet and for the promise its module's
\* default export returned has completed, and so has a load of another
\* block of the same name, which found the stylesheet link in place.
C18_Witness ==
  \E c1, c2 \in Calls :
    /\ c1 # c2 /\ Completed(c1) /\ Completed(c2)
    /\ calls[c1].block # calls[c2].block
    /\ blockName[calls[c1].block] = blockName[calls[c2].block]
    /\ calls[c1].css = "fulfilled" /\ calls[c2].css = "fulfilled"
    /\ Len(head) = 1 /\ head[1].owner = c1 /\ head[1].state = "loaded"
    /\ invocationCount[calls[c1].block] = 1
    /\ invocationCount[calls[c2].block] = 1

\* document.head holds at most one stylesheet link per href.
OneLinkPerHref ==
  \A i, j \in DOMAIN head : head[i].href = head[j].href => i = j

\* A step in which a call runs loadCSS for an href that document.head
\* already has a link for leaves the head alone and gives the call a
\* fulfilled stylesheet promise.
ExistingLinkReused ==
  \A c \in Calls :
    (/\ calls[c].css = "none" /\ calls'[c].css # "none"
     /\ \E i \in DOMAIN head :
          head[i].href = CssHref(blockName[calls'[c].block]))
      => head' = head /\ calls'[c].css = "fulfilled"

\* C19: over every interleaving of loadBlock calls, on blocks of the same
\* name too, document.head never holds two stylesheet links of the same
\* href, and a loadCSS call that finds a link for its href adds nothing and
\* its promise is fulfilled.
C19_StylesheetDeduplicated == []OneLinkPerHref /\ [][ExistingLinkReused]_vars

\* Two loads of distinct blocks of the same name are in flight; the head
\* holds the one link the first appended, still loading, and the second
\* load's stylesheet promise is fulfilled already.
C19_Witness ==
  \E c1, c2 \in Calls :
    /\ calls[c1].pc = "awaiting" /\ calls[c2].pc = "awaiting"
    /\ calls[c1].block # calls[c2].block
    /\ blockName[calls[c1].block] = blockName[calls[c2].block]
    /\ Len(head) = 1 /\ head[1].owner = c1 /\ head[1].state = "loading"
    /\ calls[c1].css = "pending" /\ calls[c2].css = "fulfilled"

\* At most the record of the call being made changes.
OnlyCallChanges(c) ==
  /\ UNCHANGED <<blockStatus, statusLog, head, decorationCount,
                 invocationCount, blockName>>
  /\ \A c2 \in Calls \ {c} : calls'[c2] = calls[c2]

\* C20: a loadBlock call that finds its block loading or loaded writes no
\* status, starts no decoration, appends no link and starts no import, and
\* returns at once, whether or not the block is loaded by then; the call
\* that took the block from unloaded to loading returns only with the block
\* loaded.
C20_NoOpCall ==
  /\ [][\A c \in Calls :
         (calls[c].pc = "idle" /\ calls'[c].pc # "idle"
          /\ blockStatus[calls'[c].block] \in {"loading", "loaded"})
           => /\ OnlyCallChanges(c)
              /\ calls'[c].pc = "done" /\ calls'[c].result = "fulfilled"
              /\ ~calls'[c].gate
              /\ calls'[c].css = "none" /\ calls'[c].mod = "none"]_vars
  /\ [](\A c \in Calls :
         (calls[c].pc = "done" /\ calls[c].gate)
           => blockStatus[calls[c].block] = "loaded")

\* A call that found its block loading has returned while the load it did
\* not wait for is still in flight and the block still loading.
C20_Witness ==
  \E c1, c2 \in Calls :
    /\ calls[c1].block = calls[c2].block
    /\ calls[c1].gate /\ calls[c1].pc = "awaiting"
    /\ calls[c1].mod = "running"
    /\ calls[c2].pc = "done" /\ calls[c2].observed = "loading"
    /\ calls[c2].result = "fulfilled" /\ ~calls[c2].gate
    /\ blockStatus[calls[c2].block] = "loading"

(***************************************************************************)
(* Properties of the query codec (under SpecCodec).                        *)
(***************************************************************************)
\* The decoded values a URL carries for key, in order.
QueryGet(url, key) == GetAll(ParseQuery(url.query), key)

LastValue(params, key) ==
  params[CHOOSE i \in DOMAIN params :
           params[i].k = key /\ \A j \in DOMAIN params : params[j].k = key => j <= i].v

C6_Idempotent == qStep = "twice" => qTwice = qOnce

\* The first application changed the URL (a value was overwritten and a raw
\* "," was re-encoded), and the second application has run.
C6_Witness ==
  /\ qStep = "twice"
  /\ qOnce # qUrl
  /\ \E i \in DOMAIN qUrl.query : qUrl.query[i].v = <<"1", ",", "2">>
  /\ \E key \in allowedParams :
       /\ HasKey(qParams, key) /\ HasKey(qUrl.query, key)
       /\ QueryGet(qUrl, key) # <<LastValue(qParams, key)>>

(***************************************************************************)
(* Properties of the synthesizers (under SpecPicture).                     *)
(***************************************************************************)
HasMedia(br) == br.media # Undefined

MediaMatches(el, br) ==
  IF HasMedia(br) THEN el.media = br.media ELSE el.media = Undefined

C8_UrlsCarryWidthAndFormat ==
  LET bps == pIn.breakpoints
      n == Len(bps)
      ch == pOut.children
      ext == ExtOf(pIn.src.path)
  IN (pFn = "createOptimizedPicture" /\ pOut.kind = "picture") =>
       /\ \A i \in 1..n :
            /\ QueryGet(ch[i].url, "width") = <<StrOf(bps[i].width)>>
            /\ QueryGet(ch[i].url, "format")
                 = <<NegotiatedFormat(pIn.variant, pIn.imageFormat)>>
       /\ \A i \in 1..n :
            /\ QueryGet(ch[n + i].url, "width") = <<StrOf(bps[i].width)>>
            /\ QueryGet(ch[n + i].url, "format") = <<ext>>

\* The breakpoints smart-crop synthesis works from: the given ones, or one
\* per entry of the global configuration.
C9_Expected ==
  IF pIn.breakpoints # <<>>
  THEN [i \in DOMAIN pIn.breakpoints |->
          [media |-> pIn.breakpoints[i].media,
           smartcrop |-> pIn.breakpoints[i].smartcrop]]
  ELSE [i \in DOMAIN pCfg.entries |->
          [media |-> <<"(min-width: ">> \o pCfg.entries[i].minWidth
                       \o <<"px) and (max-width: ">>
                       \o pCfg.entries[i].maxWidth \o <<"px)">>,
           smartcrop |-> pCfg.entries[i].name]]

\* C9: createOptimizedPictureWithSmartcrop over N breakpoints (given, or
\* derived from the configuration when none is given) returns a picture with
\* N typed sources, then N untyped sources, each with its breakpoint's media
\* and smartcrop = its breakpoint's crop name, then one img whose URL has no
\* smartcrop parameter; the picture has the class smartcrop.
C9_SmartcropStructure ==
  LET ex == C9_Expected
      n == Len(ex)
      ch == pOut.children
  IN (/\ pFn = "createOptimizedPictureWithSmartcrop"
      /\ (pIn.breakpoints # <<>> \/ pCfg.defined)) =>
       /\ pOut.kind = "picture"
       /\ "smartcrop" \in pOut.classes
       /\ Len(ch) = 2 * n + 1
       /\ \A i \in 1..n :
            /\ ch[i].tag = "source" /\ ch[n + i].tag = "source"
            /\ ch[i].type # Undefined /\ ch[n + i].type = Undefined
            /\ MediaMatches(ch[i], ex[i]) /\ MediaMatches(ch[n + i], ex[i])
            /\ ex[i].smartcrop # Undefined =>
                 /\ QueryGet(ch[i].url, "smartcrop") = <<ex[i].smartcrop>>
                 /\ QueryGet(ch[n + i].url, "smartcrop") = <<ex[i].smartcrop>>
       /\ ch[2 * n + 1].tag = "img"
       /\ QueryGet(ch[2 * n + 1].url, "smartcrop") = <<>>

\* No breakpoints given, two configured crops, and a source URL that already
\* carried a smartcrop parameter.
C9_Witness ==
  /\ pFn = "createOptimizedPictureWithSmartcrop"
  /\ pOut.kind = "picture"
  /\ pIn.breakpoints = <<>>
  /\ Len(pCfg.entries) = 2
  /\ HasKey(pIn.src.query, "smartcrop")

\* C10 (as claimed): with no breakpoints and no smart-crop configuration a
\* synthesizer fails with an error.
C10_EmptyBreakpointsFail ==
  (pFn \notin {"none", "idle"} /\ pIn.breakpoints = <<>> /\ ~pCfg.defined) =>
    pOut.kind = "error"

(***************************************************************************)
(* Properties of the decoration passes (under SpecDecorate).               *)
(***************************************************************************)
\* The subtree as the loop of the last decorateExternalImages pass saw it.
Marked == markSmartCropImages(dPrev, dCfg)

\* The node was classified external and has a source URL.
ExternalWithSource(node) ==
  Classify(node, dCfg).isExternal /\ node.src # NoSrc

IsSmartcropPicture(node) ==
  /\ node.tag = "picture"
  /\ node.pic.status = <<"loaded">>
  /\ "smartcrop" \in node.pic.classes

\* C11 (as claimed): after a decorateExternalImages pass that returned, every
\* node classified external (with a source URL) has been replaced by a
\* picture; where the node's smart-crop status was loading the picture is a
\* smart-crop picture with status loaded; and no node classified external
\* carries the status loading.
C11_LoadingNodesGetSmartcrop ==
  (dStep = "once" /\ ~dThrew) =>
    /\ \A i \in DOMAIN dPrev :
         ExternalWithSource(Marked[i]) =>
           /\ dOut[i].tag = "picture"
           /\ Marked[i].status = <<"loading">> => IsSmartcropPicture(dOut[i])
    /\ \A i \in DOMAIN dOut :
         ~(Classify(dOut[i], dCfg).isExternal /\ dOut[i].status = <<"loading">>)

\* The node at position i was replaced by the last decorateExternalImages pass.
Replaced(i) ==
  /\ dPrev[i].tag \in {"a", "img"}
  /\ dOut[i].tag = "picture"

\* The url carries key with the (decoded) value of the raw value v.
Carries(url, key, v) ==
  \E j \in DOMAIN QueryGet(url, key) : QueryGet(url, key)[j] = DecodeStr(v)

OnSmartcropPath(i) ==
  Marked[i].status = <<"loading">> /\ IsSmartcropPicture(dOut[i])

AltOf(pic) == pic.children[FirstImg(pic)].alt

PayloadOf(pic) == JSONParse(decodeURIComponent(AltOf(pic)).text)

HasDeliveryUrl(pic) ==
  /\ decodeURIComponent(AltOf(pic)).ok
  /\ PayloadOf(pic).ok /\ PayloadOf(pic).object
  /\ Member(PayloadOf(pic).members, "deliveryUrl") \notin {Undefined, <<"">>}

MatchesAssetPattern(pic) ==
  isDMOpenAPIUrl(UrlString(UrlOfString(
    Member(PayloadOf(pic).members, "deliveryUrl"))))

\* C13 (as claimed, on a page with a smart-crop configuration and for a pass
\* that returned): a picture whose inner image's alt is no payload with a
\* delivery URL is left as it was; any other picture is replaced by a new
\* picture, tagged smartcrop exactly when the delivery URL matches the
\* structured-asset pattern, whose img has altText as its alt.
C13_AltPayloadResolved ==
  (dStep = "alt" /\ ~dThrew /\ dCfg.smartCrops.defined) =>
    \A i \in DOMAIN dPrev :
      dPrev[i].tag = "picture" =>
        IF ~HasDeliveryUrl(dPrev[i].pic) THEN dOut[i] = dPrev[i]
        ELSE LET new == dOut[i].pic
                 altText == Member(PayloadOf(dPrev[i].pic).members, "altText")
             IN /\ dOut[i] # dPrev[i]
                /\ new.kind = "picture"
                /\ ("smartcrop" \in new.classes)
                     <=> MatchesAssetPattern(dPrev[i].pic)
                /\ FirstImg(new) # 0
                /\ new.children[FirstImg(new)].alt
                     = IF altText = Undefined THEN <<>> ELSE altText

\* C14 (as claimed): a decoration pass never throws, whatever nodes the
\* subtree holds: neither decorateExternalImages nor decorateImagesFromAlt
\* ends by an error escaping its loop.
C14_PassesNeverThrow == dStep \in {"once", "twice", "alt"} => ~dThrew

\* What the classifier would say of a picture's child were it standalone.
ExternalIfStandalone(child) ==
  isExternalImage(dCfg.variant,
                  [InnerElement(child) EXCEPT !.inPicture = FALSE],
                  dCfg.marker, dCfg.prefixes).isExternal

\* C15 (as claimed, in its reason): after a first decorateExternalImages
\* pass that returned, no node of the subtree is classified external.
C15_NoExternalNodeLeft ==
  (dStep = "once" /\ ~dThrew) =>
    \A i \in DOMAIN dOut : ~Classify(dOut[i], dCfg).isExternal

\* C15 (amended): a second decorateExternalImages pass on the result of a
\* first one (same marker, same configuration) leaves the subtree as the
\* first pass left it; every img inside a picture is classified not
\* external; and a node still classified external is one the pass cannot
\* replace: it has no source URL, or the pass throws (again) before it gets
\* past it.
C15_SecondPassChangesNothing ==
  dStep = "twice" =>
    /\ dOut = dPrev
    /\ \A i \in DOMAIN dPrev :
         \A c \in DOMAIN dPrev[i].pic.children :
           ~ClassifyInner(dPrev[i].pic.children[c], dCfg).isExternal
    /\ \A i \in DOMAIN dPrev :
         Classify(dPrev[i], dCfg).isExternal => (dPrev[i].src = NoSrc \/ dThrew)

\* The second pass has run on a subtree that holds a synthesized smart-crop
\* picture whose img would be external were it standalone, next to a link
\* that is not external and still carries the status loading.
C15_Witness ==
  /\ dStep = "twice"
  /\ ~dThrew
  /\ \E i, j \in DOMAIN dPrev :
       /\ IsSmartcropPicture(dPrev[i])
       /\ \E c \in DOMAIN dPrev[i].pic.children :
            /\ dPrev[i].pic.children[c].tag = "img"
            /\ ExternalIfStandalone(dPrev[i].pic.children[c])
       /\ dPrev[j].tag \in {"a", "img"}
       /\ dPrev[j].status = <<"loading">>

\* The elements of the subtree the last pass started from: its link, image
\* and picture nodes, and the children of its pictures.
ElementsOfPrev ==
  {TopElement(dPrev[i]) : i \in DOMAIN dPrev}
    \cup UNION {{InnerElement(dPrev[i].pic.children[c]) :
                   c \in DOMAIN dPrev[i].pic.children} : i \in DOMAIN dPrev}

\* The decision table's extension test, on the URL's parts: the text after
\* the final "." of scheme, host and path (the query set aside), trimmed and
\* lower-cased, is a recognized extension.
TableExtension(u) ==
  LET s == (IF u.abs THEN <<"https://">> \o u.host ELSE <<>>) \o u.path
      dots == {i \in DOMAIN s : s[i] = "."}
      last == IF dots = {} THEN 0 ELSE CHOOSE i \in dots : \A j \in dots : j <= i
  IN ToLowerCase(Trim(SubSeq(s, last + 1, Len(s)))) \in ImageExtensions

\* The prefix entries the table counts for a variant: every entry
\* (everyEntry), or the entries the variant's loop reads, which in the
\* positional variant are the two-element arrays only.
TableEntries(everyEntry) ==
  {i \in DOMAIN dCfg.prefixes :
     \/ everyEntry
     \/ dCfg.prefixes[i].isTuple
     \/ dCfg.variant = "options"}

TableMatches(e, everyEntry) ==
  {i \in TableEntries(everyEntry) :
     StartsWith(UrlString(e.src), dCfg.prefixes[i].prefix)}

\* What the classifier pairs with the entry: the handler (positional
\* variant), the format of a two-element entry (options-record variant).
TablePaired(r, i) ==
  IF dCfg.variant = "positional" THEN r.handler = dCfg.prefixes[i].handler
  ELSE r.imageFormat = IF dCfg.prefixes[i].isTuple
                       THEN dCfg.prefixes[i].format ELSE Undefined

TableRow(e, everyEntry) ==
  LET r == isExternalImage(dCfg.variant, e, dCfg.marker, dCfg.prefixes)
      hits == TableMatches(e, everyEntry)
  IN CASE e.tag = "img" /\ e.inPicture -> ~r.isExternal
       [] e.tag = "img" /\ ~e.inPicture ->
            /\ r.isExternal <=>
                 (e.src # NoSrc /\ hits # {} /\ TableExtension(e.src))
            /\ r.isExternal =>
                 TablePaired(r, CHOOSE i \in hits : \A j \in hits : i <= j)
       [] e.tag = "a" /\ Trim(e.text) = dCfg.marker -> r.isExternal
       [] e.tag = "a" /\ Trim(e.text) # dCfg.marker ->
            r.isExternal <=> (e.src # NoSrc /\ TableExtension(e.src))
       [] OTHER -> ~r.isExternal

\* C16 (as claimed): isExternalImage follows the decision table for every
\* node a pass has classified, a standalone image being external iff its src
\* starts with some entry of the configured prefix list and has a recognized
\* extension, paired with what the first such entry gives.
C16_DecisionTableEveryEntry ==
  dStep = "once" => \A e \in ElementsOfPrev : TableRow(e, TRUE)

\* The rest of the table: with the prefix entries narrowed to the ones the
\* variant's loop reads, every row holds, and an image with the extension
\* svg is never external.
DecisionTableOfReadEntries ==
  /\ \A e \in ElementsOfPrev : TableRow(e, FALSE)
  /\ \A e \in ElementsOfPrev :
       (e.tag = "img" /\ ToLowerCase(ExtOf(e.src.path)) = <<"svg">>) =>
         ~isExternalImage(dCfg.variant, e, dCfg.marker, dCfg.prefixes).isExternal

=============================================================================
